---- MODULE Spec2Model ----
(***************************************************************************)
(* Real-time group messaging of NextUp (server/routes.ts): the in-memory   *)
(* registry wsClients (groupId -> Set of WebSocket connections), the       *)
(* fan-out primitive broadcastToGroup, the WebSocket "message" and "close" *)
(* handlers, and the POST /api/groups/:id/messages handler that persists a *)
(* message and then publishes it.                                          *)
(*                                                                         *)
(* Node runs every callback to completion, so each synchronous handler     *)
(* (and each segment of the async POST handler between two awaits) is one  *)
(* action.                                                                 *)
(***************************************************************************)
EXTENDS Integers, Sequences, FiniteSets, TLC

\* ---- bounds of the model -------------------------------------------------
MaxFrames == 3      \* inbound WebSocket frames processed in one behaviour
MaxPosts == 2       \* POST /api/groups/:id/messages requests in one behaviour
MaxSockets == 2     \* WebSockets the chat page opens in one behaviour
MaxMsgs == 2        \* messages persisted while the chat page is watched

\* ---- universe --------------------------------------------------------------
Conns == {"c1", "c2"}
GroupIds == {"g1", "g2"}
Reqs == 1 .. MaxPosts

NoGroup == "-"
NoMsg == [id |-> 0, groupId |-> NoGroup, senderId |-> "-", content |-> "-"]

\* ---- JavaScript values carried by inbound frames and request bodies --------
\* A value is tagged with its JavaScript type; v is its String(...) rendering.
Str(s) == [t |-> "string", v |-> s]
Num(s) == [t |-> "number", v |-> s]
Missing == [t |-> "undefined", v |-> "undefined"]

\* JavaScript truthiness of a value (used by `parsed.groupId` and `!content`).
Truthy(x) ==
    CASE x.t = "undefined" -> FALSE
      [] x.t = "string" -> x.v # ""
      [] x.t = "number" -> x.v # "0"
      [] OTHER -> TRUE

\* String(x)
ToStr(x) == x.v

\* ---- JavaScript Set (insertion ordered, no duplicates) as a sequence -------
Range(s) == {s[i] : i \in DOMAIN s}

SetHas(s, x) == x \in Range(s)

\* set.add that does not look for the element first
SetAddDup(s, x) == Append(s, x)

\* set.add(x)
SetAdd(s, x) == IF SetHas(s, x) THEN s ELSE Append(s, x)

\* set.delete(x)
SetDelete(s, x) == SelectSeq(s, LAMBDA y : y # x)

\* ---- JavaScript Map as a function with a varying domain --------------------
EmptyMap == [k \in {} |-> <<>>]

MapSet(m, k, v) == [x \in (DOMAIN m) \cup {k} |-> IF x = k THEN v ELSE m[x]]

MapDelete(m, k) == [x \in (DOMAIN m) \ {k} |-> m[x]]

\* ---- the store (storage.getGroup / getGroupMembers) ------------------------
GroupOwner == [g \in GroupIds |-> IF g = "g1" THEN "u1" ELSE "u0"]
GroupMembers == [g \in GroupIds |-> IF g = "g2" THEN {"u1"} ELSE {}]

VARIABLES
    wsClients,   \* Map<string, Set<ws>>: groupId -> connections
    conn,        \* per connection: "idle", "open", "broken", "closed"
    sendLog,     \* per connection, every send(...) call on it in order: [frame, ok]
    reqs,        \* per POST request: position in the handler and its locals
    store,       \* persisted messages, in persistence order
    nFrames,     \* number of inbound frames processed
    subs,        \* history: the (connection, group) pairs a subscribe registered,
                 \* minus those an unsubscribe or a close took back
    subsAtClose, \* history: groups each connection was registered in when it closed
    bcasts,      \* history: every broadcastToGroup call
    server,      \* the Node process: "up", or "down" after an uncaught exception
    hist,        \* history, kept only when hist.on: the inbound frames processed
                 \* and the input of every POST request
    page         \* one browser tab showing GroupChatPage: route, sockets, query
                 \* cache, requests in flight, and what the server holds for them

vars == <<wsClients, conn, sendLog, reqs, store, nFrames, subs, subsAtClose, bcasts,
          server, hist, page>>

\* ---- outbound frames -------------------------------------------------------
AckFrame(groupId) == [type |-> "subscribed", groupId |-> groupId, message |-> NoMsg]
MsgFrame(message) == [type |-> "message", groupId |-> NoGroup, message |-> message]

\* c.send(msg) throws once the transport of c no longer accepts data
\* ("broken": the transport failed and its close event has not fired yet)
Throws(c) == conn[c] # "open"

\* the process runs its callbacks only while no exception went uncaught
Up == server = "up"

NoInput == [groupId |-> NoGroup, userId |-> "-", content |-> Missing]

\* history of inbound frames and request inputs, recording or not
NoHist(on) ==
    [on |-> on,
     frame |-> [c |-> "-", f |-> [json |-> FALSE, type |-> Missing, groupId |-> Missing]],
     dropped |-> {},
     framesAtPublish |-> <<>>,
     posts |-> [r \in Reqs |-> NoInput]]

LogFrame(h, c, f) ==
    IF h.on THEN [h EXCEPT !.frame = [c |-> c, f |-> f]] ELSE h

\* the handler took neither branch for a frame of c
LogDropped(h, c) ==
    IF h.on THEN [h EXCEPT !.dropped = @ \cup {c}] ELSE h

\* the handler of a request made n broadcastToGroup calls after k inbound frames
LogPublish(h, n, k) ==
    IF h.on /\ n > 0 THEN [h EXCEPT !.framesAtPublish = Append(@, k)] ELSE h

LogPost(h, r, groupId, userId, content) ==
    IF h.on
    THEN [h EXCEPT !.posts[r] = [groupId |-> groupId, userId |-> userId, content |-> content]]
    ELSE h

\* the query cache entry of a key that was never written: undefined
NoData == [isArray |-> FALSE, items |-> <<>>]

\* the chat page is not mounted, nothing is cached, no message is stored
NoPage ==
    [id |-> NoGroup,
     socks |-> <<>>,
     cache |-> [g \in GroupIds |-> NoData],
     fetch |-> [g \in GroupIds |-> [pc |-> "idle", snap |-> <<>>]],
     stored |-> [g \in GroupIds |-> <<>>],
     replies |-> {},
     viaWs |-> {},
     viaPost |-> {}]

\* registerRoutes has returned: no connection, no request, an empty registry
Started ==
    /\ page = NoPage
    /\ wsClients = EmptyMap
    /\ conn = [c \in Conns |-> "idle"]
    /\ sendLog = [c \in Conns |-> <<>>]
    /\ reqs = [r \in Reqs |-> [pc |-> "new", groupId |-> NoGroup, userId |-> "-",
                               content |-> Missing, persist |-> "-",
                               message |-> NoMsg, status |-> 0]]
    /\ store = <<>>
    /\ nFrames = 0
    /\ subs = {}
    /\ subsAtClose = [c \in Conns |-> {}]
    /\ bcasts = <<>>
    /\ server = "up"

Init == Started /\ hist = NoHist(FALSE)

\* the same start, with the history of frames and request inputs recorded
InitAudit == Started /\ hist = NoHist(TRUE)

\* ---- inbound frames -----------------------------------------------------
\* A frame is either not parseable JSON, or a JSON object with (possibly
\* missing) fields type and groupId.
Frames ==
    {[json |-> FALSE, type |-> Missing, groupId |-> Missing]} \cup
    {[json |-> TRUE, type |-> t, groupId |-> g] :
        t \in {Str("subscribe"), Str("unsubscribe"), Str("ping")},
        g \in {Str("g1"), Str("g2"), Missing}}

\* subscribe test without the `&& parsed.groupId` conjunct
IsSubscribeAnyGroupId(f) == f.json /\ f.type = Str("subscribe")

\* parsed && parsed.type === "subscribe" && parsed.groupId
IsSubscribe(f) == f.json /\ f.type = Str("subscribe") /\ Truthy(f.groupId)

\* parsed && parsed.type === "unsubscribe" && parsed.groupId
IsUnsubscribe(f) == f.json /\ f.type = Str("unsubscribe") /\ Truthy(f.groupId)

\* ---- registry updates ------------------------------------------------------
MapGet(m, k) == IF k \in DOMAIN m THEN m[k] ELSE <<>>

\* the user whose session opened each connection: c1 is the owner of g1 and a
\* member of g2, c2 is neither in any group
ConnUser == [c \in Conns |-> IF c = "c1" THEN "u1" ELSE "u3"]

\* subscribe branch that registers only an owner or member of the group
SubscribeMapMembersOnly(m, ws, groupId) ==
    IF /\ groupId \in GroupIds
       /\ (GroupOwner[groupId] = ConnUser[ws] \/ ConnUser[ws] \in GroupMembers[groupId])
    THEN MapSet(m, groupId, SetAdd(MapGet(m, groupId), ws))
    ELSE m

\* subscribe branch with set.add(ws) moved after ws.send: a throwing send
\* skips the registration
SubscribeMapAfterAck(m, ws, groupId) ==
    IF Throws(ws) THEN MapSet(m, groupId, MapGet(m, groupId))
    ELSE MapSet(m, groupId, SetAdd(MapGet(m, groupId), ws))

\* subscribe branch with set.add(ws) moved into the `if (!set)` block
SubscribeMapNewOnly(m, ws, groupId) ==
    IF groupId \in DOMAIN m THEN m ELSE MapSet(m, groupId, <<ws>>)

\* subscribe branch: get-or-create the group's set, then set.add(ws)
SubscribeMap(m, ws, groupId) == MapSet(m, groupId, SetAdd(MapGet(m, groupId), ws))

\* unsubscribe branch that drops the group's whole set
UnsubscribeMapDropGroup(m, ws, groupId) ==
    IF groupId \in DOMAIN m THEN MapDelete(m, groupId) ELSE m

\* unsubscribe branch that does nothing
UnsubscribeMapNoop(m, ws, groupId) == m

\* unsubscribe branch: if (set) set.delete(ws)
UnsubscribeMap(m, ws, groupId) ==
    IF groupId \in DOMAIN m THEN MapSet(m, groupId, SetDelete(m[groupId], ws)) ELSE m

\* close handler that leaves its loop after the first set that has ws
CloseMapFirstOnly(m, ws) ==
    IF \A g \in DOMAIN m : ~SetHas(m[g], ws) THEN m
    ELSE LET g == CHOOSE g \in DOMAIN m : SetHas(m[g], ws)
         IN  IF Len(m[g]) = 1 THEN MapDelete(m, g)
             ELSE MapSet(m, g, SetDelete(m[g], ws))

\* close handler that drops the sets ws is alone in and leaves ws in the others
CloseMapSoleOnly(m, ws) ==
    LET emptied == {g \in DOMAIN m : SetHas(m[g], ws) /\ Len(m[g]) = 1}
    IN  [g \in (DOMAIN m) \ emptied |-> m[g]]

\* close handler that drops every set that has ws, other subscribers included
CloseMapDropGroups(m, ws) ==
    LET hit == {g \in DOMAIN m : SetHas(m[g], ws)}
    IN  [g \in (DOMAIN m) \ hit |-> m[g]]

\* close handler: delete ws from every set that has it; drop a set it empties
CloseMap(m, ws) ==
    LET emptied == {g \in DOMAIN m : SetHas(m[g], ws) /\ Len(m[g]) = 1}
    IN  [g \in (DOMAIN m) \ emptied |-> SetDelete(m[g], ws)]

\* the groups whose subscriber set holds ws
GroupsOf(m, ws) == {g \in DOMAIN m : SetHas(m[g], ws)}

\* ---- fan-out ---------------------------------------------------------------
RECURSIVE SeqOf(_)
SeqOf(S) == IF S = {} THEN <<>>
            ELSE LET x == CHOOSE x \in S : TRUE IN <<x>> \o SeqOf(S \ {x})

\* fan-out that ignores groupId and sends to every registered connection
broadcastToAll(m, groupId, payload, thrown) ==
    LET cs == SeqOf(UNION {Range(m[g]) : g \in DOMAIN m})
    IN  [sends |-> [i \in 1 .. Len(cs) |->
                       [to |-> cs[i], frame |-> payload, ok |-> cs[i] \notin thrown]],
         threw |-> FALSE,
         clients |-> m]

\* fan-out without the try/catch around c.send: the first throw ends the loop
\* and leaves the function
broadcastNoCatch(m, groupId, payload, thrown) ==
    IF groupId \notin DOMAIN m
    THEN [sends |-> <<>>, threw |-> FALSE, clients |-> m]
    ELSE LET cs == m[groupId]
             bad == {i \in DOMAIN cs : cs[i] \in thrown}
             last == IF bad = {} THEN Len(cs)
                     ELSE CHOOSE i \in bad : \A j \in bad : i <= j
         IN  [sends |-> [i \in 1 .. last |->
                            [to |-> cs[i], frame |-> payload, ok |-> cs[i] \notin thrown]],
              threw |-> bad # {},
              clients |-> m]

\* fan-out whose loop ends quietly at the first send that throws
broadcastStopAtFailure(m, groupId, payload, thrown) ==
    IF groupId \notin DOMAIN m
    THEN [sends |-> <<>>, threw |-> FALSE, clients |-> m]
    ELSE LET cs == m[groupId]
             bad == {i \in DOMAIN cs : cs[i] \in thrown}
             last == IF bad = {} THEN Len(cs)
                     ELSE CHOOSE i \in bad : \A j \in bad : i <= j
         IN  [sends |-> [i \in 1 .. last |->
                            [to |-> cs[i], frame |-> payload, ok |-> cs[i] \notin thrown]],
              threw |-> FALSE,
              clients |-> m]

\* fan-out that unregisters a connection whose send threw
broadcastPrune(m, groupId, payload, thrown) ==
    IF groupId \notin DOMAIN m
    THEN [sends |-> <<>>, threw |-> FALSE, clients |-> m]
    ELSE [sends |-> [i \in 1 .. Len(m[groupId]) |->
                        [to |-> m[groupId][i], frame |-> payload,
                         ok |-> m[groupId][i] \notin thrown]],
          threw |-> FALSE,
          clients |-> MapSet(m, groupId, SelectSeq(m[groupId], LAMBDA c : c \notin thrown))]

\* broadcastToGroup(groupId, payload) on registry m, when c.send throws exactly
\* for the connections in thrown.  Yields the send calls made in order, whether
\* an exception left the function, and the registry afterwards.
broadcastToGroup(m, groupId, payload, thrown) ==
    IF groupId \notin DOMAIN m
    THEN [sends |-> <<>>, threw |-> FALSE, clients |-> m]
    ELSE [sends |-> [i \in 1 .. Len(m[groupId]) |->
                        [to |-> m[groupId][i], frame |-> payload,
                         ok |-> m[groupId][i] \notin thrown]],
          threw |-> FALSE,
          clients |-> m]

\* transports on which every recipient of a fan-out but the first gets the
\* frame ahead of the frames sent to it before
DeliverJumpQueue(log, sends) ==
    IF sends = <<>> THEN log
    ELSE [c \in DOMAIN log |->
            LET mine == SelectSeq(sends, LAMBDA s : s.to = c)
                new == [i \in DOMAIN mine |-> [frame |-> mine[i].frame, ok |-> mine[i].ok]]
            IN  IF c = sends[1].to THEN log[c] \o new ELSE new \o log[c]]

RECURSIVE Deliver(_, _)
\* record the send calls of sends, in order, on the transports they were made on
Deliver(log, sends) ==
    IF sends = <<>> THEN log
    ELSE LET s == Head(sends)
         IN  Deliver([log EXCEPT ![s.to] = Append(@, [frame |-> s.frame, ok |-> s.ok])],
                     Tail(sends))

\* subscribe branch that acknowledges only when it created the group's set
SubscribeSendsNewOnly(m, ws, groupId, ok) ==
    IF groupId \in DOMAIN m THEN <<>>
    ELSE <<[to |-> ws, frame |-> AckFrame(groupId), ok |-> ok]>>

\* subscribe branch that replays the group's stored messages after the ack
SubscribeSendsReplay(m, ws, groupId, ok) ==
    LET old == SelectSeq(store, LAMBDA x : x.groupId = groupId)
    IN  <<[to |-> ws, frame |-> AckFrame(groupId), ok |-> ok]>> \o
        [i \in DOMAIN old |-> [to |-> ws, frame |-> MsgFrame(old[i]), ok |-> ok]]

\* subscribe branch that sends the ack to every connection of the group
SubscribeSendsToGroup(m, ws, groupId, ok) ==
    LET cs == SetAdd(MapGet(m, groupId), ws)
    IN  [i \in DOMAIN cs |-> [to |-> cs[i], frame |-> AckFrame(groupId), ok |-> ok]]

\* the send calls of the subscribe branch, entered with registry m:
\* ws.send(JSON.stringify({ type: "subscribed", groupId }))
SubscribeSends(m, ws, groupId, ok) ==
    <<[to |-> ws, frame |-> AckFrame(groupId), ok |-> ok]>>

\* ---- WebSocket server ------------------------------------------------------
\* wss.on("connection")
Connect(c) ==
    /\ Up
    /\ conn[c] = "idle"
    /\ conn' = [conn EXCEPT ![c] = "open"]
    /\ UNCHANGED <<page, wsClients, sendLog, reqs, store, nFrames, subs, subsAtClose, bcasts,
                   server, hist>>

\* the transport fails; the close event has not fired yet
TransportBreak(c) ==
    /\ Up
    /\ conn[c] = "open"
    /\ conn' = [conn EXCEPT ![c] = "broken"]
    /\ UNCHANGED <<page, wsClients, sendLog, reqs, store, nFrames, subs, subsAtClose, bcasts,
                   server, hist>>

\* ws emits "message" only between "connection" and "close"
Receiving(c) == conn[c] \in {"open", "broken"}

\* ws.on("message"), subscribe branch
OnSubscribe(c, f) ==
    /\ Up
    /\ Receiving(c) /\ nFrames < MaxFrames
    /\ IsSubscribe(f)
    /\ LET groupId == ToStr(f.groupId)
       IN  /\ wsClients' = SubscribeMap(wsClients, c, groupId)
           /\ sendLog' = Deliver(sendLog, SubscribeSends(wsClients, c, groupId, ~Throws(c)))
           /\ subs' = subs \cup {<<c, groupId>>}
    /\ nFrames' = nFrames + 1
    /\ hist' = LogFrame(hist, c, f)
    /\ UNCHANGED <<page, conn, reqs, store, subsAtClose, bcasts, server>>

\* ws.on("message"), unsubscribe branch
OnUnsubscribe(c, f) ==
    /\ Up
    /\ Receiving(c) /\ nFrames < MaxFrames
    /\ ~IsSubscribe(f) /\ IsUnsubscribe(f)
    /\ LET groupId == ToStr(f.groupId)
       IN  /\ wsClients' = UnsubscribeMap(wsClients, c, groupId)
           /\ subs' = subs \ {<<c, groupId>>}
    /\ nFrames' = nFrames + 1
    /\ hist' = LogFrame(hist, c, f)
    /\ UNCHANGED <<page, conn, sendLog, reqs, store, subsAtClose, bcasts, server>>

\* ws.on("message"), neither branch taken, or JSON.parse threw
OnIgnoredFrame(c, f) ==
    /\ Up
    /\ Receiving(c) /\ nFrames < MaxFrames
    /\ ~IsSubscribe(f) /\ ~IsUnsubscribe(f)
    /\ nFrames' = nFrames + 1
    /\ hist' = LogDropped(LogFrame(hist, c, f), c)
    /\ UNCHANGED <<page, wsClients, conn, sendLog, reqs, store, subs, subsAtClose, bcasts, server>>

\* ws.on("close")
OnClose(c) ==
    /\ Up
    /\ Receiving(c)
    /\ wsClients' = CloseMap(wsClients, c)
    /\ conn' = [conn EXCEPT ![c] = "closed"]
    /\ subsAtClose' = [subsAtClose EXCEPT ![c] = GroupsOf(wsClients, c)]
    /\ subs' = {p \in subs : p[1] # c}
    /\ UNCHANGED <<page, sendLog, reqs, store, nFrames, bcasts, server, hist>>

\* ---- POST /api/groups/:id/messages ------------------------------------------

\* requests tried: <<req.params.id, req.user.id, req.body.content>>
PostInputs ==
    { <<"g1", "u1", Str("hi")>>, <<"g2", "u1", Str("hi")>>,
      <<"gx", "u1", Str("hi")>>, <<"g1", "u3", Str("hi")>>,
      <<"g1", "u1", Str("")>>, <<"g1", "u1", Num("5")>>, <<"g1", "u1", Missing>> }

\* membership test that lets every user through
IsMemberAnyone(groupId, userId) == TRUE

\* group.ownerId === userId || members.some(m => m.memberId === userId)
IsMember(groupId, userId) ==
    GroupOwner[groupId] = userId \/ userId \in GroupMembers[groupId]

\* content test that only rejects a missing or empty content
BadContentFalsyOnly(content) == ~Truthy(content)

\* !content || typeof content !== "string"
BadContent(content) == ~Truthy(content) \/ content.t # "string"

\* the response is sent; of the handler's locals only the history of the
\* request is kept: its group, what the store did, the stored message, the status
Finish(r, groupId, status) ==
    reqs' = [reqs EXCEPT ![r] = [pc |-> "done", groupId |-> groupId, userId |-> "-",
                                 content |-> Missing, persist |-> reqs[r].persist,
                                 message |-> reqs[r].message, status |-> status]]

\* The request arrives and the handler runs up to `await storage.createMessage`
\* or to an early response.  storage.getGroup and storage.getGroupMembers only
\* read the group records, which nothing in this model writes, so the two
\* awaits before createMessage are folded into this step.
PostStart(r, groupId, userId, content) ==
    /\ Up
    /\ reqs[r].pc = "new"
    /\ \A q \in Reqs : q < r => reqs[q].pc # "new"
    /\ IF groupId \notin GroupIds
       THEN Finish(r, groupId, 404)
       ELSE IF ~IsMember(groupId, userId)
            THEN Finish(r, groupId, 403)
            ELSE IF BadContent(content)
                 THEN Finish(r, groupId, 400)
                 ELSE reqs' = [reqs EXCEPT ![r].pc = "createMessage", ![r].groupId = groupId,
                                           ![r].userId = userId, ![r].content = content]
    /\ hist' = LogPost(hist, r, groupId, userId, content)
    /\ UNCHANGED <<page, wsClients, conn, sendLog, store, nFrames, subs, subsAtClose, bcasts, server>>

\* MessageStore.Append succeeds: the message gets its identifier
StoreCreateMessage(r) ==
    /\ reqs[r].pc = "createMessage"
    /\ LET message == [id |-> Len(store) + 1, groupId |-> reqs[r].groupId,
                       senderId |-> reqs[r].userId, content |-> ToStr(reqs[r].content)]
       IN  /\ store' = Append(store, message)
           /\ reqs' = [reqs EXCEPT ![r].pc = "settled", ![r].persist = "created",
                                   ![r].message = message]
    /\ UNCHANGED <<page, wsClients, conn, sendLog, nFrames, subs, subsAtClose, bcasts, server, hist>>

\* MessageStore.Append fails: the awaited promise rejects
StoreRejectMessage(r) ==
    /\ reqs[r].pc = "createMessage"
    /\ reqs' = [reqs EXCEPT ![r].pc = "settled", ![r].persist = "rejected"]
    /\ UNCHANGED <<page, wsClients, conn, sendLog, store, nFrames, subs, subsAtClose, bcasts,
                   server, hist>>

\* handler that publishes before it looks at the outcome of createMessage
PostTailAlwaysPublish(outcome) ==
    IF outcome = "created" THEN <<"broadcast", "201">> ELSE <<"broadcast", "400">>

\* handler that publishes the stored message twice
PostTailPublishTwice(outcome) ==
    IF outcome = "created" THEN <<"broadcast", "broadcast", "201">> ELSE <<"400">>

\* What the handler executes once `await storage.createMessage` settles:
\* the statements after it, or the catch block.
PostTail(outcome) ==
    IF outcome = "created" THEN <<"broadcast", "201">> ELSE <<"400">>

\* the broadcastToGroup calls of a tail, run in order on the registry
Publishes(tail) == SelectSeq(tail, LAMBDA x : x = "broadcast")

\* handler that answers 400 when a transport does not accept data any more
RespondFailsWithSend(tail) ==
    IF tail[Len(tail)] = "201" /\ \A c \in Conns : ~Throws(c) THEN 201 ELSE 400

Respond(tail) == IF tail[Len(tail)] = "201" THEN 201 ELSE 400

RECURSIVE RunPublishes(_, _, _, _, _)
\* state == [clients, log, calls]: fold n broadcastToGroup calls of request r.
\* Each call is recorded in calls with what held when it was made.
RunPublishes(n, r, payload, thrown, state) ==
    IF n = 0 THEN state
    ELSE LET groupId == reqs[r].groupId
             b == broadcastToGroup(state.clients, groupId, payload, thrown)
             call == [req |-> r, groupId |-> groupId, msgId |-> payload.message.id,
                      targets |-> MapGet(state.clients, groupId),
                      expected |-> {c \in Conns : <<c, groupId>> \in subs},
                      elsewhere |-> {c \in Conns : /\ <<c, groupId>> \notin subs
                                                   /\ \E p \in subs : p[1] = c},
                      left |-> {c \in Conns : /\ conn[c] = "closed"
                                              /\ groupId \in subsAtClose[c]},
                      stale |-> {c \in Conns : /\ conn[c] = "closed"
                                               /\ GroupsOf(state.clients, c) # {}},
                      sentTo |-> [i \in DOMAIN b.sends |-> b.sends[i].to],
                      thrown |-> thrown \cap Range(MapGet(state.clients, groupId)),
                      threw |-> b.threw]
         IN  RunPublishes(n - 1, r, payload, thrown,
                          [clients |-> b.clients, log |-> Deliver(state.log, b.sends),
                           calls |-> Append(state.calls, call)])

\* the handler resumes after createMessage settled and runs to its response
PostResume(r, outcome) ==
    /\ Up
    /\ reqs[r].pc = "settled" /\ reqs[r].persist = outcome
    /\ LET thrown == {c \in Conns : Throws(c)}
           tail == PostTail(outcome)
           end == RunPublishes(Len(Publishes(tail)), r, MsgFrame(reqs[r].message), thrown,
                               [clients |-> wsClients, log |-> sendLog, calls |-> bcasts])
       IN  /\ wsClients' = end.clients
           /\ sendLog' = end.log
           /\ bcasts' = end.calls
           /\ Finish(r, reqs[r].groupId, Respond(tail))
           /\ hist' = LogPublish(hist, Len(Publishes(tail)), nFrames)
    /\ UNCHANGED <<page, conn, store, nFrames, subs, subsAtClose, server>>

PostCreated(r) == PostResume(r, "created")

PostRejected(r) == PostResume(r, "rejected")

Next ==
    \/ \E c \in Conns : Connect(c)
    \/ \E c \in Conns : TransportBreak(c)
    \/ \E c \in Conns, f \in Frames : OnSubscribe(c, f)
    \/ \E c \in Conns, f \in Frames : OnUnsubscribe(c, f)
    \/ \E c \in Conns, f \in Frames : OnIgnoredFrame(c, f)
    \/ \E c \in Conns : OnClose(c)
    \/ \E r \in Reqs, i \in PostInputs : PostStart(r, i[1], i[2], i[3])
    \/ \E r \in Reqs : StoreCreateMessage(r)
    \/ \E r \in Reqs : StoreRejectMessage(r)
    \/ \E r \in Reqs : PostCreated(r)
    \/ \E r \in Reqs : PostRejected(r)

Spec == Init /\ [][Next]_vars

\* ---- the wire protocol alone: every kind of inbound frame, no POST request ---
\* groupId values tried: strings, the empty string, numbers, no groupId
WireFrames ==
    {[json |-> FALSE, type |-> Missing, groupId |-> Missing]} \cup
    {[json |-> TRUE, type |-> t, groupId |-> g] :
        t \in {Str("subscribe"), Str("unsubscribe"), Str("ping")},
        g \in {Str("g1"), Str("g2"), Str(""), Num("7"), Num("0"), Missing}}

NextWire ==
    \/ \E c \in Conns : Connect(c)
    \/ \E c \in Conns : TransportBreak(c)
    \/ \E c \in Conns, f \in WireFrames : OnSubscribe(c, f)
    \/ \E c \in Conns, f \in WireFrames : OnUnsubscribe(c, f)
    \/ \E c \in Conns, f \in WireFrames : OnIgnoredFrame(c, f)
    \/ \E c \in Conns : OnClose(c)

SpecWire == InitAudit /\ [][NextWire]_vars

\* ---- the write path: every kind of request, subscribers of one group --------
PostFrames == {[json |-> TRUE, type |-> Str("subscribe"), groupId |-> Str("g1")]}

NextPost ==
    \/ \E c \in Conns : Connect(c)
    \/ \E c \in Conns, f \in PostFrames : OnSubscribe(c, f)
    \/ \E c \in Conns : OnClose(c)
    \/ \E r \in Reqs, i \in PostInputs : PostStart(r, i[1], i[2], i[3])
    \/ \E r \in Reqs : StoreCreateMessage(r)
    \/ \E r \in Reqs : StoreRejectMessage(r)
    \/ \E r \in Reqs : PostCreated(r)
    \/ \E r \in Reqs : PostRejected(r)

SpecPost == InitAudit /\ [][NextPost]_vars

\* ---- subscribe, unsubscribe and publish: no ignored frame, no failing request --
ChatFrames ==
    {[json |-> TRUE, type |-> t, groupId |-> Str(g)] :
        t \in {Str("subscribe"), Str("unsubscribe")}, g \in GroupIds}

NextChat ==
    \/ \E c \in Conns : Connect(c)
    \/ \E c \in Conns, f \in ChatFrames : OnSubscribe(c, f)
    \/ \E c \in Conns, f \in ChatFrames : OnUnsubscribe(c, f)
    \/ \E c \in Conns : OnClose(c)
    \/ \E r \in Reqs : PostStart(r, "g1", "u1", Str("hi"))
    \/ \E r \in Reqs : StoreCreateMessage(r)
    \/ \E r \in Reqs : PostCreated(r)

SpecChat == InitAudit /\ [][NextChat]_vars

\* ---- connection failures ------------------------------------------------------
\* The ws library emits "error" on a connection whose peer breaks the WebSocket
\* protocol (a reserved bit set, invalid UTF-8 in a text frame, a payload over
\* maxPayload).  The connection callback registers "message" and "close"
\* listeners only; an "error" event without a listener makes emit throw, and
\* nothing catches what is thrown from the socket's data callback: the process
\* ends, and with it every connection, the registry and the pending requests.
OnError(c) ==
    /\ Up
    /\ conn[c] = "open"
    /\ conn' = [conn EXCEPT ![c] = "broken"]
    /\ server' = "down"
    /\ UNCHANGED <<page, wsClients, sendLog, reqs, store, nFrames, subs, subsAtClose, bcasts, hist>>

FaultFrames == {[json |-> FALSE, type |-> Missing, groupId |-> Missing]}

NextFault ==
    \/ \E c \in Conns : Connect(c)
    \/ \E c \in Conns : TransportBreak(c)
    \/ \E c \in Conns, f \in PostFrames : OnSubscribe(c, f)
    \/ \E c \in Conns, f \in FaultFrames : OnIgnoredFrame(c, f)
    \/ \E c \in Conns : OnClose(c)
    \/ \E c \in Conns : OnError(c)
    \/ \E r \in Reqs : PostStart(r, "g1", "u1", Str("hi"))
    \/ \E r \in Reqs : StoreCreateMessage(r)
    \/ \E r \in Reqs : PostCreated(r)

SpecFault == InitAudit /\ [][NextFault]_vars

\* ---- the chat page (client/src/pages/group-chat-page.tsx) ---------------------
\* The page is checked on its own: the server's variables stay as they are and
\* the server is what the page can observe of it: the messages stored per
\* group, the message frames it sends to sockets that subscribed, and the
\* responses to the page's GET and POST requests.
serverVars == <<wsClients, conn, sendLog, reqs, store, nFrames, subs, subsAtClose, bcasts,
                server, hist>>

\* route parameters: no chat page shown, or the chat page of a group
Routes == GroupIds \cup {NoGroup}

\* arr.find((m) => m.id === msg.id)
HasId(arr, id) == \E i \in DOMAIN arr : arr[i].id = id

\* cache updater without the find: unshift on every call
CacheInsertAlways(old, msg) ==
    [isArray |-> TRUE, items |-> <<msg>> \o (IF old.isArray THEN old.items ELSE <<>>)]

\* the updater passed to queryClient.setQueryData by the message listener and
\* by postMessage.onSuccess
CacheInsert(old, msg) ==
    LET arr == IF old.isArray THEN old.items ELSE <<>>
    IN  [isArray |-> TRUE, items |-> IF HasId(arr, msg.id) THEN arr ELSE <<msg>> \o arr]

ClientFrame(type, groupId) == [type |-> type, groupId |-> groupId]

\* effect cleanup that leaves the socket as it is
CleanupKeepsOpen(socks, id) == socks

\* the effect's cleanup for route id: ws.send(unsubscribe) in a try/catch (it
\* throws while the socket is connecting and is dropped once it is closing or
\* closed), then ws.close().  ws is the socket the effect created, the last one.
Cleanup(socks, id) ==
    IF id = NoGroup \/ socks = <<>> THEN socks
    ELSE LET k == Len(socks)
             ws == socks[k]
         IN  [socks EXCEPT
                 ![k].sent = IF ws.st = "open"
                             THEN Append(@, ClientFrame("unsubscribe", id)) ELSE @,
                 ![k].st = IF ws.st \in {"connecting", "open"} THEN "closing" ELSE @]

\* the effect's body for route id: if (!id) return; new WebSocket(url)
Setup(socks, id) ==
    IF id = NoGroup THEN socks
    ELSE Append(socks, [id |-> id, st |-> "connecting", sent |-> <<>>, inbox |-> {}])

\* The route changes (mount, another group, unmount): React runs the cleanup of
\* the previous effect and then the effect for the new id; useQuery starts the
\* history fetch of a key that has none yet.
Navigate(id) ==
    /\ id \in Routes /\ id # page.id
    /\ id # NoGroup => Len(page.socks) < MaxSockets
    /\ page' = [page EXCEPT
                   !.id = id,
                   !.socks = Setup(Cleanup(page.socks, page.id), id),
                   !.fetch = IF id # NoGroup /\ page.fetch[id].pc = "idle"
                             THEN [@ EXCEPT ![id].pc = "sent"] ELSE @]
    /\ UNCHANGED serverVars

\* ws "open" listener: ws.send(JSON.stringify({ type: "subscribe", groupId: id }))
SockOpen(k) ==
    /\ k \in DOMAIN page.socks
    /\ page.socks[k].st = "connecting"
    /\ page' = [page EXCEPT
                   !.socks[k].st = "open",
                   !.socks[k].sent = Append(@, ClientFrame("subscribe", page.socks[k].id))]
    /\ UNCHANGED serverVars

\* the socket reaches CLOSED: the closing handshake ended, the connection
\* attempt failed, or the server or the network ended the connection
SockClosed(k) ==
    /\ k \in DOMAIN page.socks
    /\ page.socks[k].st # "closed"
    /\ page' = [page EXCEPT !.socks[k].st = "closed"]
    /\ UNCHANGED serverVars

\* sockets whose subscribe frame for group g went out
Subscribers(g) ==
    {k \in DOMAIN page.socks :
        ClientFrame("subscribe", g) \in Range(page.socks[k].sent)}

\* A message is stored in group g and fanned out: the sockets in to, among
\* those that sent a subscribe for g, are sent its frame (the server may not
\* have processed a subscribe yet, or may have processed an unsubscribe).
\* own: it is this page's POST, and its 201 response is on its way.
Publish(g, to, own) ==
    /\ g \in GroupIds /\ to \subseteq Subscribers(g)
    /\ own => page.id = g
    /\ LET n == Len(page.stored["g1"]) + Len(page.stored["g2"])
           msg == [id |-> n + 1, groupId |-> g]
       IN  /\ n < MaxMsgs
           /\ page' = [page EXCEPT
                          !.stored[g] = <<msg>> \o @,
                          !.socks = [k \in DOMAIN @ |->
                                        IF k \in to THEN [@[k] EXCEPT !.inbox = @ \cup {msg}]
                                        ELSE @[k]],
                          !.replies = IF own THEN @ \cup {[key |-> g, msg |-> msg]} ELSE @]
    /\ UNCHANGED serverVars

\* ws "message" listener for a frame {type: "message", message: msg}; the same
\* frame may be delivered again
WsMessage(k, msg) ==
    /\ k \in DOMAIN page.socks
    /\ page.socks[k].st = "open"
    /\ msg \in page.socks[k].inbox
    /\ LET id == page.socks[k].id
       IN  page' = [page EXCEPT
                       !.cache[id] = CacheInsert(@, msg),
                       !.viaWs = @ \cup {[key |-> id, id |-> msg.id]}]
    /\ UNCHANGED serverVars

\* postMessage.onSuccess with the message of the 201 response
OnSuccess(reply) ==
    /\ reply \in page.replies
    /\ page' = [page EXCEPT
                   !.cache[reply.key] = CacheInsert(@, reply.msg),
                   !.replies = @ \ {reply},
                   !.viaPost = @ \cup {[key |-> reply.key, id |-> reply.msg.id]}]
    /\ UNCHANGED serverVars

\* GET /api/groups/:id/messages: storage.getMessages reads the group's messages
FetchRead(g) ==
    /\ g \in GroupIds /\ page.fetch[g].pc = "sent"
    /\ page' = [page EXCEPT !.fetch[g] = [pc |-> "read", snap |-> page.stored[g]]]
    /\ UNCHANGED serverVars

\* the queryFn's promise resolves: the query's data becomes the fetched array
FetchResolve(g) ==
    /\ g \in GroupIds /\ page.fetch[g].pc = "read"
    /\ page' = [page EXCEPT !.fetch[g].pc = "done",
                            !.cache[g] = [isArray |-> TRUE, items |-> page.fetch[g].snap]]
    /\ UNCHANGED serverVars

\* the messages that can be stored while the page is watched
Msgs == [id : 1 .. MaxMsgs, groupId : GroupIds]

NextPage ==
    \/ \E id \in Routes : Navigate(id)
    \/ \E k \in 1 .. MaxSockets : SockOpen(k)
    \/ \E k \in 1 .. MaxSockets : SockClosed(k)
    \/ \E g \in GroupIds, to \in SUBSET (1 .. MaxSockets), own \in BOOLEAN : Publish(g, to, own)
    \/ \E k \in 1 .. MaxSockets, msg \in Msgs : WsMessage(k, msg)
    \/ \E reply \in [key : GroupIds, msg : Msgs] : OnSuccess(reply)
    \/ \E g \in GroupIds : FetchRead(g)
    \/ \E g \in GroupIds : FetchResolve(g)

SpecPage == Init /\ [][NextPage]_vars

\* ---- properties ------------------------------------------------------------
\* positions on the transport of c of the message frames carrying identifier id
MsgEntries(c, id) ==
    {i \in DOMAIN sendLog[c] : /\ sendLog[c][i].frame.type = "message"
                                /\ sendLog[c][i].frame.message.id = id}

\* positions on the transport of c of the acknowledgments for group g
AckEntries(c, g) ==
    {i \in DOMAIN sendLog[c] : sendLog[c][i].frame = AckFrame(g)}

NoDup(s) == \A i, j \in DOMAIN s : s[i] = s[j] => i = j

\* C1: once a valid subscribe frame from C for G was processed, and no
\* unsubscribe of C for G nor C's close since, every broadcastToGroup(G, M)
\* makes a send call of M's frame on C.
C1_SubscribedIsSent ==
    \A i \in DOMAIN bcasts : \A c \in bcasts[i].expected :
        /\ c \in Range(bcasts[i].sentTo)
        /\ MsgEntries(c, bcasts[i].msgId) # {}

\* a publish to a group reached two connections that subscribed to it
C1_Witness ==
    \E i \in DOMAIN bcasts :
        /\ bcasts[i].expected = Conns
        /\ \A c \in Conns : MsgEntries(c, bcasts[i].msgId) # {}

\* C2: once the close handler of C has run, no broadcastToGroup call makes a
\* send call on C any more, whatever groups C was in when it closed.
C2_NoSendAfterClose ==
    [][\A c \in Conns : conn[c] = "closed" => sendLog'[c] = sendLog[c]]_vars

\* C closed while in g1 and g2, and g1 and g2 were both published to afterwards
C2_Witness ==
    \E c \in Conns :
        /\ subsAtClose[c] = GroupIds
        /\ \A g \in GroupIds : \E i \in DOMAIN bcasts :
              /\ bcasts[i].groupId = g
              /\ c \in bcasts[i].left
              /\ c \notin Range(bcasts[i].sentTo)

\* C3: a connection whose close handler has run is in no group's subscriber
\* set, in every later state.
C3_ClosedIsTerminal ==
    \A c \in Conns : conn[c] = "closed" => GroupsOf(wsClients, c) = {}

\* C closed while subscribed, and a group it was in has subscribers again
C3_Witness ==
    \E c \in Conns : \E g \in subsAtClose[c] :
        /\ conn[c] = "closed"
        /\ g \in DOMAIN wsClients
        /\ wsClients[g] # <<>>

\* C4: a group's subscriber set holds a connection at most once, and a
\* broadcastToGroup call makes exactly one send call per subscriber.
C4_SubscribeIdempotent ==
    /\ \A g \in DOMAIN wsClients : NoDup(wsClients[g])
    /\ \A i \in DOMAIN bcasts :
          /\ NoDup(bcasts[i].sentTo)
          /\ \A c \in bcasts[i].expected :
                Cardinality({k \in DOMAIN bcasts[i].sentTo : bcasts[i].sentTo[k] = c}) = 1

\* C subscribed twice to G (two acknowledgments) and then got one frame of a
\* message published to G
C4_Witness ==
    \E c \in Conns, g \in GroupIds : \E i, j, k \in DOMAIN sendLog[c] :
        /\ i < j /\ j < k
        /\ {i, j} \subseteq AckEntries(c, g)
        /\ sendLog[c][k].frame.type = "message"
        /\ sendLog[c][k].frame.message.groupId = g
        /\ MsgEntries(c, sendLog[c][k].frame.message.id) = {k}

\* C5: broadcastToGroup(G1, M) makes send calls only on connections that are in
\* G1's subscriber set at the call; a connection subscribed only to other groups
\* gets no frame of M.
C5_NoCrossGroupLeak ==
    /\ \A i \in DOMAIN bcasts :
          /\ Range(bcasts[i].sentTo) \subseteq Range(bcasts[i].targets)
          /\ Range(bcasts[i].sentTo) \cap bcasts[i].elsewhere = {}
    /\ \A c \in Conns : \A k \in DOMAIN sendLog[c] :
          sendLog[c][k].frame.type = "message" =>
              \E i \in DOMAIN bcasts :
                  /\ bcasts[i].msgId = sendLog[c][k].frame.message.id
                  /\ bcasts[i].groupId = sendLog[c][k].frame.message.groupId
                  /\ c \in Range(bcasts[i].targets)

\* a publish reached a subscriber of its group while another connection was
\* subscribed to a different group only, and that one got nothing
C5_Witness ==
    \E i \in DOMAIN bcasts : \E c \in bcasts[i].elsewhere :
        /\ Range(bcasts[i].sentTo) # {}
        /\ MsgEntries(c, bcasts[i].msgId) = {}

\* C6: the close handler takes the connection out of every subscriber set in
\* one step and leaves the other connections' memberships alone; no
\* broadcastToGroup call sees a closed connection still in some set.
C6_DisconnectAtomic ==
    /\ [][\A c \in Conns : (conn[c] # "closed" /\ conn'[c] = "closed") =>
            /\ GroupsOf(wsClients', c) = {}
            /\ \A d \in Conns \ {c} : GroupsOf(wsClients', d) = GroupsOf(wsClients, d)]_vars
    /\ [](\A i \in DOMAIN bcasts : bcasts[i].stale = {})

\* a connection closed while in two groups, one of them shared with another
\* connection, which is still in it
C6_Witness ==
    \E c \in Conns, d \in Conns :
        /\ c # d
        /\ conn[c] = "closed"
        /\ Cardinality(subsAtClose[c]) >= 2
        /\ GroupsOf(wsClients, d) \cap subsAtClose[c] # {}

\* C7: when a send call throws inside broadcastToGroup, the send is still made
\* on every other subscriber of the group and no exception leaves the function.
C7_BestEffort ==
    \A i \in DOMAIN bcasts :
        /\ ~bcasts[i].threw
        /\ Range(bcasts[i].sentTo) = Range(bcasts[i].targets)
        /\ \A c \in Range(bcasts[i].targets) :
              \E k \in MsgEntries(c, bcasts[i].msgId) :
                  sendLog[c][k].ok = (c \notin bcasts[i].thrown)

\* the send to the first subscriber threw and the second subscriber got the frame
C7_Witness ==
    \E i \in DOMAIN bcasts :
        /\ Len(bcasts[i].targets) >= 2
        /\ bcasts[i].targets[1] \in bcasts[i].thrown
        /\ bcasts[i].targets[2] \notin bcasts[i].thrown
        /\ \E k \in MsgEntries(bcasts[i].targets[2], bcasts[i].msgId) :
              sendLog[bcasts[i].targets[2]][k].ok

\* C8: a step that calls broadcastToGroup leaves the registry map as it was,
\* failed sends included.
C8_PublishKeepsMembership ==
    [][bcasts' # bcasts => wsClients' = wsClients]_vars

\* a send threw, and the connection is still registered in the group
C8_Witness ==
    \E i \in DOMAIN bcasts : \E c \in bcasts[i].thrown :
        /\ conn[c] = "broken"
        /\ bcasts[i].groupId \in DOMAIN wsClients
        /\ SetHas(wsClients[bcasts[i].groupId], c)

\* C9: a request whose storage.createMessage rejected makes no broadcastToGroup
\* call, puts no frame on any transport and is answered with an error status.
C9_RejectedNotPublished ==
    /\ [](\A r \in Reqs : reqs[r].persist = "rejected" =>
            /\ \A i \in DOMAIN bcasts : bcasts[i].req # r
            /\ reqs[r].status # 201
            /\ reqs[r].pc = "done" => reqs[r].status = 400)
    /\ [][\A r \in Reqs : (reqs[r].persist = "rejected" /\ reqs'[r].pc # reqs[r].pc) =>
            sendLog' = sendLog]_vars

\* createMessage rejected for a group that has a subscriber; the request got 400
C9_Witness ==
    \E r \in Reqs :
        /\ reqs[r].persist = "rejected"
        /\ reqs[r].pc = "done"
        /\ reqs[r].status = 400
        /\ reqs[r].groupId \in DOMAIN wsClients
        /\ \E c \in Conns : /\ SetHas(wsClients[reqs[r].groupId], c)
                            /\ AckEntries(c, reqs[r].groupId) # {}
                            /\ conn[c] = "open"

\* C10: a persisted message is published by exactly one broadcastToGroup call,
\* made by the request that persisted it, and no transport carries two frames
\* with the same message identifier.
C10_PublishedOnce ==
    /\ \A r \in Reqs : (reqs[r].persist = "created" /\ reqs[r].pc = "done") =>
          /\ Cardinality({i \in DOMAIN bcasts : bcasts[i].msgId = reqs[r].message.id}) = 1
          /\ \A i \in DOMAIN bcasts : bcasts[i].msgId = reqs[r].message.id => bcasts[i].req = r
    /\ \A i, j \in DOMAIN bcasts : bcasts[i].msgId = bcasts[j].msgId => i = j
    /\ \A c \in Conns : \A m \in Range(store) : Cardinality(MsgEntries(c, m.id)) <= 1

\* two messages were persisted and published; a subscriber has one frame of each
C10_Witness ==
    /\ \E r, q \in Reqs : /\ r # q
                          /\ reqs[r].persist = "created" /\ reqs[r].pc = "done"
                          /\ reqs[q].persist = "created" /\ reqs[q].pc = "done"
    /\ \E c \in Conns : \A m \in Range(store) : Cardinality(MsgEntries(c, m.id)) = 1
    /\ Len(store) >= 2

\* positions on the transport of c of the message frames of group g
GroupMsgEntries(log, c, g) ==
    {i \in DOMAIN log[c] : /\ log[c][i].frame.type = "message"
                           /\ log[c][i].frame.message.groupId = g}

\* C11: the step that registers C in the set of G sends C the acknowledgment
\* {type:"subscribed", groupId:G} as the last frame on C's transport, so no
\* publish falls between registration and ack; a message frame for G goes only
\* to a connection that was registered in G before the step; and every message
\* frame for G on C's transport has an acknowledgment for G before it.
C11_AckBeforeMessage ==
    [][\A c \in Conns : \A g \in GroupIds :
          /\ (~SetHas(MapGet(wsClients, g), c) /\ SetHas(MapGet(wsClients', g), c))
                => /\ Len(sendLog'[c]) = Len(sendLog[c]) + 1
                   /\ sendLog'[c][Len(sendLog'[c])].frame = AckFrame(g)
                   /\ SubSeq(sendLog'[c], 1, Len(sendLog[c])) = sendLog[c]
          /\ GroupMsgEntries(sendLog', c, g) # GroupMsgEntries(sendLog, c, g)
                => SetHas(MapGet(wsClients, g), c)
          /\ \A k \in GroupMsgEntries(sendLog', c, g) :
                \E j \in 1 .. k - 1 : sendLog'[c][j].frame = AckFrame(g)
      ]_vars

\* a stored message reached a connection as the frame right after its
\* acknowledgment for the group, and reached another connection too
C11_Witness ==
    \E c \in Conns : \E r \in Reqs :
        /\ reqs[r].pc = "done" /\ reqs[r].status = 201
        /\ \E k \in MsgEntries(c, reqs[r].message.id) :
              /\ k > 1
              /\ sendLog[c][k - 1].frame = AckFrame(reqs[r].groupId)
        /\ \E d \in Conns \ {c} : MsgEntries(d, reqs[r].message.id) # {}

\* the step handled an inbound frame; hist'.frame is that frame and its connection
FrameStep == nFrames' = nFrames + 1 /\ hist'.on

\* C12: a subscribe or unsubscribe frame whose groupId is missing or is not a
\* string is dropped: the registry map is unchanged, no acknowledgment is sent
\* and the connection stays open.  (The handler tests `parsed.groupId` for
\* truthiness only and registers under String(parsed.groupId).)
C12_NonStringGroupIdDropped ==
    [][(/\ FrameStep
        /\ hist'.frame.f.json
        /\ hist'.frame.f.type \in {Str("subscribe"), Str("unsubscribe")}
        /\ hist'.frame.f.groupId.t # "string")
          => /\ wsClients' = wsClients
             /\ sendLog' = sendLog
             /\ conn' = conn
      ]_vars

\* the frame of the step is one the protocol does not recognize: not JSON, a
\* type other than subscribe and unsubscribe, or a subscribe without groupId
Unrecognized(f) ==
    \/ ~f.json
    \/ f.type \notin {Str("subscribe"), Str("unsubscribe")}
    \/ f.type = Str("subscribe") /\ f.groupId = Missing

\* C13: an inbound frame that is not parseable JSON, or whose type is neither
\* "subscribe" nor "unsubscribe", or that is a subscribe without groupId, leaves
\* the registry, every transport and every connection state as they were; and
\* a valid subscribe for a group, whatever frames came before it, registers the
\* connection in the group and sends it the acknowledgment.
C13_IgnoredFrameChangesNothing ==
    [][FrameStep =>
          LET c == hist'.frame.c
              f == hist'.frame.f
          IN  /\ Unrecognized(f)
                  => /\ wsClients' = wsClients
                     /\ sendLog' = sendLog
                     /\ conn' = conn
              /\ (f.json /\ f.type = Str("subscribe") /\ f.groupId \in {Str(g) : g \in GroupIds})
                  => /\ SetHas(MapGet(wsClients', ToStr(f.groupId)), c)
                     /\ Len(sendLog'[c]) = Len(sendLog[c]) + 1
                     /\ sendLog'[c][Len(sendLog'[c])].frame = AckFrame(ToStr(f.groupId))
                     /\ conn' = conn
      ]_vars

\* a connection whose earlier frame was ignored is open, has just subscribed to
\* g1, is registered there and got the acknowledgment
C13_Witness ==
    \E c \in Conns :
        /\ c \in hist.dropped
        /\ hist.frame = [c |-> c, f |-> [json |-> TRUE, type |-> Str("subscribe"),
                                         groupId |-> Str("g1")]]
        /\ conn[c] = "open"
        /\ SetHas(MapGet(wsClients, "g1"), c)
        /\ sendLog[c] = <<[frame |-> AckFrame("g1"), ok |-> TRUE]>>

\* connection c is in the subscriber set of group g in registry m
Registered(m, c, g) == SetHas(MapGet(m, g), c)

\* C14: an unsubscribe frame of C for G leaves C out of G's set, raises no
\* error whether or not C was in it or G had an entry, and changes no other
\* membership: not another connection's in G, not C's in another group; a
\* publish to G is then sent to exactly the connections registered in G, so it
\* reaches B and not the unsubscribed A.
C14_UnsubscribeOnlyThatPair ==
    [][/\ (FrameStep /\ hist'.frame.f.type = Str("unsubscribe"))
            => LET c == hist'.frame.c
                   g == ToStr(hist'.frame.f.groupId)
               IN  /\ ~Registered(wsClients', c, g)
                   /\ \A d \in Conns : \A h \in GroupIds :
                         <<d, h>> # <<c, g>>
                             => (Registered(wsClients', d, h) <=> Registered(wsClients, d, h))
                   /\ sendLog' = sendLog
                   /\ conn' = conn
                   /\ Up'
       /\ Len(bcasts') = Len(bcasts) + 1
            => LET g == bcasts'[Len(bcasts')].groupId
               IN  \A d \in Conns :
                      (Len(sendLog'[d]) > Len(sendLog[d])) <=> Registered(wsClients, d, g)
      ]_vars

\* A and B subscribed to g1, A unsubscribed, and a message published to g1 after
\* these three frames was sent to B and not to A
C14_Witness ==
    \E a \in Conns : \E b \in Conns \ {a} :
        /\ hist.frame = [c |-> a, f |-> [json |-> TRUE, type |-> Str("unsubscribe"),
                                         groupId |-> Str("g1")]]
        /\ sendLog[a] = <<[frame |-> AckFrame("g1"), ok |-> TRUE]>>
        /\ Len(sendLog[b]) = 2
        /\ sendLog[b][1].frame = AckFrame("g1")
        /\ sendLog[b][2].frame.type = "message"
        /\ sendLog[b][2].frame.message.groupId = "g1"
        /\ Len(bcasts) = 1
        /\ hist.framesAtPublish = <<3>>
        /\ ~Registered(wsClients, a, "g1") /\ Registered(wsClients, b, "g1")

\* the sender is the owner of the existing group or one of its members
Authorized(groupId, userId) ==
    /\ groupId \in GroupIds
    /\ userId = GroupOwner[groupId] \/ userId \in GroupMembers[groupId]

\* request r has answered with one of the statuses in codes
Answered(rs, r, codes) == rs[r].pc = "done" /\ rs[r].status \in codes

\* C15: every broadcastToGroup call of the post handler is for the group of
\* its request and comes after the request's sender was found to be the owner
\* or a member of that group; a request of a non-member is answered 403 and a
\* request for a group that does not exist 404, and the step that answers so
\* stores no message and sends no frame, nor does that request ever publish.
C15_AuthorizedBeforeFanOut ==
    [][/\ \A i \in DOMAIN bcasts' :
             LET in == hist'.posts[bcasts'[i].req]
             IN  /\ bcasts'[i].groupId = in.groupId
                 /\ Authorized(in.groupId, in.userId)
       /\ \A r \in Reqs :
             LET in == hist'.posts[r]
             IN  /\ (reqs'[r].pc # "new" /\ in.groupId \notin GroupIds)
                     => Answered(reqs', r, {404})
                 /\ (reqs'[r].pc # "new" /\ in.groupId \in GroupIds
                                         /\ ~Authorized(in.groupId, in.userId))
                     => Answered(reqs', r, {403})
                 /\ Answered(reqs', r, {403, 404})
                     => /\ reqs'[r].persist = "-" /\ reqs'[r].message = NoMsg
                        /\ \A i \in DOMAIN bcasts' : bcasts'[i].req # r
                 /\ (reqs[r].pc = "new" /\ Answered(reqs', r, {403, 404}))
                     => store' = store /\ sendLog' = sendLog /\ bcasts' = bcasts
      ]_vars

\* a non-member's request was answered 403 and the owner's request was stored
\* and published to a subscriber
C15_Witness ==
    \E r, q \in Reqs :
        /\ hist.posts[r] = [groupId |-> "g1", userId |-> "u3", content |-> Str("hi")]
        /\ Answered(reqs, r, {403})
        /\ Answered(reqs, q, {201})
        /\ \E i \in DOMAIN bcasts : bcasts[i].req = q /\ Len(bcasts[i].sentTo) > 0
        /\ Len(store) = 1

\* the request body's content is a string with at least one character
GoodContent(content) == content.t = "string" /\ content.v # ""

\* C16: a message is persisted and fanned out only for a request whose content
\* is a non-empty string, and the message frame carries the message as stored,
\* with the identifier the store gave it; a request of an authorized sender
\* whose content is missing, empty or not a string is answered 400, and neither
\* then nor later is anything persisted or sent for it.
C16_ContentChecked ==
    [][/\ \A i \in DOMAIN bcasts' :
             LET r == bcasts'[i].req
             IN  /\ GoodContent(hist'.posts[r].content)
                 /\ bcasts'[i].msgId \in DOMAIN store'
                 /\ store'[bcasts'[i].msgId].id = bcasts'[i].msgId
                 /\ store'[bcasts'[i].msgId].content = hist'.posts[r].content.v
       /\ \A c \in Conns : \A k \in DOMAIN sendLog'[c] :
             sendLog'[c][k].frame.type = "message"
                 => sendLog'[c][k].frame.message \in Range(store')
       /\ \A r \in Reqs :
             LET in == hist'.posts[r]
             IN  /\ reqs'[r].persist = "created" => GoodContent(in.content)
                 /\ (reqs'[r].pc # "new" /\ Authorized(in.groupId, in.userId)
                                         /\ ~GoodContent(in.content))
                     => /\ Answered(reqs', r, {400})
                        /\ reqs'[r].persist = "-" /\ reqs'[r].message = NoMsg
                        /\ \A i \in DOMAIN bcasts' : bcasts'[i].req # r
                 /\ (reqs[r].pc = "new" /\ reqs'[r].pc # "new" /\ ~GoodContent(in.content))
                     => store' = store /\ sendLog' = sendLog /\ bcasts' = bcasts
      ]_vars

\* a request whose content is a number was answered 400 without reaching the
\* store, and a request with the content "hi" was stored as message 1 and sent
C16_Witness ==
    \E r, q \in Reqs :
        /\ hist.posts[r] = [groupId |-> "g1", userId |-> "u1", content |-> Num("5")]
        /\ Answered(reqs, r, {400}) /\ reqs[r].persist = "-"
        /\ Answered(reqs, q, {201})
        /\ store = <<reqs[q].message>> /\ reqs[q].message.content = "hi"
        /\ \E c \in Conns : MsgEntries(c, 1) # {}

\* the first position on the transport of c of the message frame with identifier id
FirstMsgEntry(c, id) == CHOOSE i \in MsgEntries(c, id) : \A j \in MsgEntries(c, id) : i <= j

\* C17: for any two messages published to the same group and any two
\* connections that were sent both, the two connections were sent them in the
\* same relative order, however the post requests interleave.
C17_SameOrderEverywhere ==
    \A x, y \in DOMAIN bcasts : \A c, d \in Conns :
        LET m1 == bcasts[x].msgId
            m2 == bcasts[y].msgId
        IN  (/\ m1 # m2
             /\ bcasts[x].groupId = bcasts[y].groupId
             /\ \A e \in {c, d} : MsgEntries(e, m1) # {} /\ MsgEntries(e, m2) # {})
                => ((FirstMsgEntry(c, m1) < FirstMsgEntry(c, m2))
                       <=> (FirstMsgEntry(d, m1) < FirstMsgEntry(d, m2)))

\* two concurrent posts to g1 were fanned out in the reverse of the order in
\* which the store persisted them, and both connections were sent both messages
C17_Witness ==
    /\ Len(bcasts) = 2
    /\ bcasts[1].groupId = "g1" /\ bcasts[2].groupId = "g1"
    /\ bcasts[1].msgId = 2 /\ bcasts[2].msgId = 1
    /\ \A c \in Conns : MsgEntries(c, 1) # {} /\ MsgEntries(c, 2) # {}
    /\ \A c \in Conns : <<c, "g1">> \in subs

\* C18: two messages posted to the same group are fanned out to its
\* subscribers in the order in which the store persisted them (the order of
\* their identifiers, which is their order in the store).
C18_FanOutInPersistenceOrder ==
    \A i, j \in DOMAIN bcasts :
        (/\ i < j
         /\ bcasts[i].groupId = bcasts[j].groupId
         /\ Len(bcasts[i].sentTo) > 0 /\ Len(bcasts[j].sentTo) > 0)
            => bcasts[i].msgId < bcasts[j].msgId

\* connection c has had a failure: its transport broke or raised an error, it
\* closed, or it sent a frame the handler could not use
Failed(c) == conn[c] \in {"broken", "closed"} \/ c \in hist.dropped

\* C19: whatever failure a connection has had, the server goes on handling
\* events: a frame of every other open connection is still processed, and a
\* request whose message was stored still resumes and publishes it.
C19_NoFatalFailure ==
    \A c \in Conns : Failed(c) =>
        /\ \A d \in Conns \ {c} :
              (conn[d] = "open" /\ nFrames < MaxFrames)
                  => \A f \in PostFrames : ENABLED OnSubscribe(d, f)
        /\ \A r \in Reqs : reqs[r].pc = "settled" => ENABLED PostResume(r, reqs[r].persist)

\* C20: a connection is in the subscriber set of a group exactly when it is
\* not closed and the group is in the set obtained from the connection's own
\* events: subscribe adds the group, unsubscribe removes it, close empties it.
C20_RegistryRefinesStateMachine ==
    \A c \in Conns : \A g \in GroupIds \cup DOMAIN wsClients \cup {p[2] : p \in subs} :
        Registered(wsClients, c, g) <=> (conn[c] # "closed" /\ <<c, g>> \in subs)

\* a connection subscribed to g1 and g2 and then unsubscribed from g1: it is
\* in the set of g2 only
C20_Witness ==
    \E c \in Conns :
        /\ hist.frame = [c |-> c, f |-> [json |-> TRUE, type |-> Str("unsubscribe"),
                                         groupId |-> Str("g1")]]
        /\ AckEntries(c, "g1") # {} /\ AckEntries(c, "g2") # {}
        /\ {p \in subs : p[1] = c} = {<<c, "g2">>}
        /\ Registered(wsClients, c, "g2") /\ ~Registered(wsClients, c, "g1")

\* positions in log of the message frames sent to c with identifier id
MsgIdEntries(log, c, id) ==
    {i \in DOMAIN log[c] : /\ log[c][i].frame.type = "message"
                           /\ log[c][i].frame.message.id = id}

\* C21: a message is sent only to connections that were in the group's set
\* when broadcastToGroup was called for it, so a connection that subscribes
\* later is never sent it; a publish leaves the registry as it was, and the
\* registry holds connections only, no message.
C21_NoReplay ==
    [][/\ \A c \in Conns : \A i \in DOMAIN bcasts' :
             MsgIdEntries(sendLog', c, bcasts'[i].msgId) # {}
                 => c \in Range(bcasts'[i].targets)
       /\ \A c \in Conns : \A k \in DOMAIN sendLog'[c] :
             sendLog'[c][k].frame.type = "message"
                 => \E i \in DOMAIN bcasts' : bcasts'[i].msgId = sendLog'[c][k].frame.message.id
       /\ Len(bcasts') > Len(bcasts) => wsClients' = wsClients
       /\ \A g \in DOMAIN wsClients' : Range(wsClients'[g]) \subseteq Conns
      ]_vars

\* a message was published to g1 and sent to one connection; the other
\* connection subscribed to g1 afterwards and was sent the ack only
C21_Witness ==
    \E c \in Conns : \E d \in Conns \ {c} :
        /\ Len(bcasts) = 1 /\ bcasts[1].groupId = "g1"
        /\ MsgEntries(d, bcasts[1].msgId) # {}
        /\ Len(hist.framesAtPublish) = 1 /\ hist.framesAtPublish[1] < nFrames
        /\ hist.frame = [c |-> c, f |-> [json |-> TRUE, type |-> Str("subscribe"),
                                         groupId |-> Str("g1")]]
        /\ Registered(wsClients, c, "g1")
        /\ sendLog[c] = <<[frame |-> AckFrame("g1"), ok |-> TRUE]>>

\* C22: once createMessage has succeeded for a request, the handler's next
\* step answers 201 with the message as stored, whether or not a send of the
\* fan-out failed and whoever was sent the message.
C22_SenderSees201 ==
    [][\A r \in Reqs :
          /\ (reqs[r].pc = "settled" /\ reqs[r].persist = "created" /\ reqs'[r] # reqs[r])
                => /\ Answered(reqs', r, {201})
                   /\ reqs'[r].message = reqs[r].message
          /\ Answered(reqs', r, {201})
                => reqs'[r].persist = "created" /\ reqs'[r].message \in Range(store')
          /\ (reqs'[r].pc = "done" /\ reqs'[r].persist = "created")
                => Answered(reqs', r, {201})
      ]_vars

\* a request was answered 201 although a send of its fan-out threw and the
\* message reached no connection
C22_Witness ==
    \E r \in Reqs : \E i \in DOMAIN bcasts :
        /\ Answered(reqs, r, {201})
        /\ bcasts[i].req = r
        /\ bcasts[i].thrown # {}
        /\ \A c \in Conns : \A k \in MsgEntries(c, bcasts[i].msgId) : ~sendLog[c][k].ok

\* C23: a subscribe frame for a group registers the connection in the group's
\* set whoever its user is, member of the group or not, and every message
\* published to the group afterwards is sent to every connection registered in
\* it, members' and non-members' alike.
C23_SubscribeUnauthorized ==
    [][/\ (FrameStep /\ hist'.frame.f.type = Str("subscribe")
                     /\ hist'.frame.f.groupId \in {Str(g) : g \in GroupIds})
            => Registered(wsClients', hist'.frame.c, ToStr(hist'.frame.f.groupId))
       /\ Len(bcasts') = Len(bcasts) + 1
            => LET b == bcasts'[Len(bcasts')]
               IN  \A c \in Conns :
                      Registered(wsClients, c, b.groupId)
                          => /\ Len(sendLog'[c]) = Len(sendLog[c]) + 1
                             /\ sendLog'[c][Len(sendLog'[c])].frame.type = "message"
                             /\ sendLog'[c][Len(sendLog'[c])].frame.message.id = b.msgId
      ]_vars

\* the connection of a user who is neither owner nor member of g1 subscribed
\* to g1 and was sent a message published to g1 by its owner
C23_Witness ==
    \E c \in Conns : \E i \in DOMAIN bcasts :
        /\ ~Authorized("g1", ConnUser[c])
        /\ Registered(wsClients, c, "g1")
        /\ bcasts[i].groupId = "g1"
        /\ hist.posts[bcasts[i].req].userId = GroupOwner["g1"]
        /\ \E k \in MsgEntries(c, bcasts[i].msgId) : sendLog[c][k].ok

\* C24: a publish and a disconnect of C are safe in both orders.  Once the
\* close handler of C has run, no frame is sent on C.  A publish made while the
\* transport of a subscriber is broken throws nothing, leaves the registry as
\* it was, and sends the message to every other subscriber of the group; the
\* close handler that runs later leaves C in no group's set.
C24_PublishRacesDisconnect ==
    [][/\ \A c \in Conns : conn[c] = "closed" => sendLog'[c] = sendLog[c]
       /\ Len(bcasts') = Len(bcasts) + 1
            => LET b == bcasts'[Len(bcasts')]
               IN  /\ ~b.threw
                   /\ wsClients' = wsClients
                   /\ Up'
                   /\ \A d \in Conns :
                         Registered(wsClients, d, b.groupId)
                             => /\ Len(sendLog'[d]) = Len(sendLog[d]) + 1
                                /\ sendLog'[d][Len(sendLog'[d])].frame.type = "message"
                                /\ sendLog'[d][Len(sendLog'[d])].frame.message.id = b.msgId
                                /\ sendLog'[d][Len(sendLog'[d])].ok <=> conn[d] = "open"
       /\ \A c \in Conns :
             (conn[c] # "closed" /\ conn'[c] = "closed")
                 => \A g \in DOMAIN wsClients' : ~SetHas(wsClients'[g], c)
      ]_vars

\* a message was published to a group while the transport of subscriber c was
\* broken: the send on c failed, subscriber d was sent the message, and the
\* close handler of c then took c out of the registry
C24_Witness ==
    \E c \in Conns : \E d \in Conns \ {c} : \E i \in DOMAIN bcasts :
        /\ bcasts[i].thrown = {c}
        /\ bcasts[i].sentTo = <<c, d>>
        /\ \E k \in MsgEntries(d, bcasts[i].msgId) : sendLog[d][k].ok
        /\ \E k \in MsgEntries(c, bcasts[i].msgId) : ~sendLog[c][k].ok
        /\ conn[c] = "closed"
        /\ \A g \in DOMAIN wsClients : ~SetHas(wsClients[g], c)
        /\ Registered(wsClients, d, bcasts[i].groupId)

\* C25: every group key of the registry map has at least one connection in its
\* set: a set that becomes empty, by close or by the unsubscribe of its last
\* subscriber, is removed from the map.  (The unsubscribe branch deletes the
\* connection from the set and keeps the emptied set under its key.)
C25_NoEmptyGroupEntry ==
    \A g \in DOMAIN wsClients : wsClients[g] # <<>>

\* connection c was sent one more frame in this step, an ack for group g
AckStep(c, g) ==
    /\ Len(sendLog'[c]) = Len(sendLog[c]) + 1
    /\ sendLog'[c][Len(sendLog'[c])].frame = AckFrame(g)

\* C26: the step that sends a connection the ack for a group leaves the
\* connection in the group's set whether the send succeeded or threw, and leaves
\* the connection's state and the server as they were; a publish to the group
\* makes a send call on every connection in the set.
C26_RegisteredDespiteFailedAck ==
    [][/\ \A c \in Conns : \A g \in GroupIds :
             AckStep(c, g) => Registered(wsClients', c, g) /\ conn' = conn /\ Up'
       /\ Len(bcasts') = Len(bcasts) + 1
            => \A d \in Conns :
                  Registered(wsClients, d, bcasts'[Len(bcasts')].groupId)
                      => MsgIdEntries(sendLog', d, bcasts'[Len(bcasts')].msgId) # {}
      ]_vars

\* the ack for g1 could not be sent to a connection, the connection is in the
\* set of g1 all the same, and a send of a message published to g1 afterwards
\* was attempted on it
C26_Witness ==
    \E c \in Conns : \E i \in DOMAIN bcasts :
        /\ \E j \in AckEntries(c, "g1") :
              /\ ~sendLog[c][j].ok
              /\ \E k \in MsgEntries(c, bcasts[i].msgId) : j < k
        /\ AckEntries(c, "g1") \cap {j \in DOMAIN sendLog[c] : sendLog[c][j].ok} = {}
        /\ bcasts[i].groupId = "g1"
        /\ Registered(wsClients, c, "g1")

\* the transport of c was sent exactly the frame fr in this step
SentOne(c, fr) ==
    /\ Len(sendLog'[c]) = Len(sendLog[c]) + 1
    /\ SubSeq(sendLog'[c], 1, Len(sendLog[c])) = sendLog[c]
    /\ sendLog'[c][Len(sendLog'[c])].frame = fr

\* C27: a subscribe frame with a non-empty string groupId, repeated or not,
\* makes exactly one send, of the ack for that group, on the connection it came
\* from and none on any other; a subscribe with any other truthy groupId is
\* either answered in that same way or not at all; an unsubscribe frame, a close
\* and a frame the handler ignores make no send.
C27_OneAckPerSubscribe ==
    [][/\ FrameStep =>
             LET c == hist'.frame.c
                 f == hist'.frame.f
                 sub == f.json /\ f.type = Str("subscribe")
             IN  /\ \A d \in Conns \ {c} : sendLog'[d] = sendLog[d]
                 /\ (sub /\ f.groupId.t = "string" /\ f.groupId.v # "")
                        => SentOne(c, AckFrame(f.groupId.v))
                 /\ (sub /\ f.groupId.t # "string")
                        => sendLog'[c] = sendLog[c] \/ SentOne(c, AckFrame(f.groupId.v))
                 /\ (~sub \/ f.groupId \in {Missing, Str("")})
                        => sendLog'[c] = sendLog[c]
       /\ (\E c \in Conns : conn[c] # "closed" /\ conn'[c] = "closed")
             => sendLog' = sendLog
      ]_vars

\* a connection subscribed to g1 twice: it was sent two acks, one per frame,
\* it is in the set once, and the other open connection was sent nothing
C27_Witness ==
    \E c \in Conns : \E d \in Conns \ {c} :
        /\ hist.frame = [c |-> c, f |-> [json |-> TRUE, type |-> Str("subscribe"),
                                         groupId |-> Str("g1")]]
        /\ sendLog[c] = <<[frame |-> AckFrame("g1"), ok |-> TRUE],
                          [frame |-> AckFrame("g1"), ok |-> TRUE]>>
        /\ wsClients = [g \in {"g1"} |-> <<c>>]
        /\ conn[d] = "open" /\ sendLog[d] = <<>>

\* C28: in the chat page's cache of every group each message identifier
\* appears at most once, in whatever order the message frame and the 201
\* response of a message are handled and however often a frame is delivered.
C28_CacheHasNoDuplicateId ==
    \A g \in GroupIds :
        \A i, j \in DOMAIN page.cache[g].items :
            page.cache[g].items[i].id = page.cache[g].items[j].id => i = j

\* the page posted a message; its frame and its 201 response were both
\* handled, and the cache holds the message once
C28_Witness ==
    \E g \in GroupIds : \E id \in 1 .. MaxMsgs :
        /\ [key |-> g, id |-> id] \in page.viaWs \cap page.viaPost
        /\ Cardinality({i \in DOMAIN page.cache[g].items : page.cache[g].items[i].id = id}) = 1

\* C29: a message that the page received over the WebSocket and inserted into
\* the cache of its group is in that cache ever after, also once the history
\* fetch of the group has resolved.  (The fetch resolves with what the server
\* read before the message was stored and replaces the cached array.)
C29_WsMessageStaysCached ==
    \A e \in page.viaWs : HasId(page.cache[e.key].items, e.id)

\* the page has not called close() on the socket and it has not reached CLOSED
Live(ws) == ws.st \in {"connecting", "open"}

\* C30: at any time at most one socket of the page is neither closing nor
\* closed, and it is the one opened for the current route's group; when the
\* route changes, the socket of the previous group is sent an unsubscribe if it
\* is open and is closed; a socket that was closed sends nothing any more and
\* never reopens; every frame a socket sends names the group it was opened for,
\* and a frame handled on a socket changes the cache of that group only.
C30_OneSocketPerRoute ==
    [][/\ \A k \in DOMAIN page'.socks :
             /\ Live(page'.socks[k]) => k = Len(page'.socks) /\ page'.socks[k].id = page'.id
             /\ \A i \in DOMAIN page'.socks[k].sent :
                   page'.socks[k].sent[i].groupId = page'.socks[k].id
       /\ (page'.id # page.id /\ page.id # NoGroup)
             => LET k == Len(page.socks)
                IN  /\ ~Live(page'.socks[k])
                    /\ page'.socks[k].sent =
                          IF page.socks[k].st = "open"
                          THEN Append(page.socks[k].sent, ClientFrame("unsubscribe", page.id))
                          ELSE page.socks[k].sent
       /\ \A k \in DOMAIN page.socks :
             ~Live(page.socks[k])
                 => ~Live(page'.socks[k]) /\ page'.socks[k].sent = page.socks[k].sent
       /\ \A e \in page'.viaWs \ page.viaWs :
             /\ \A g \in GroupIds \ {e.key} : page'.cache[g] = page.cache[g]
             /\ \E k \in DOMAIN page.socks :
                   /\ page.socks[k].id = e.key /\ page.socks[k].st = "open"
                   /\ \E msg \in page.socks[k].inbox : msg.id = e.id
      ]_vars

\* the page went from the chat of g1 to the chat of g2: the first socket sent
\* subscribe and unsubscribe for g1 and is closing, the second is open for g2
C30_Witness ==
    /\ page.id = "g2"
    /\ Len(page.socks) = 2
    /\ page.socks[1].id = "g1" /\ page.socks[1].st = "closing"
    /\ page.socks[1].sent = <<ClientFrame("subscribe", "g1"), ClientFrame("unsubscribe", "g1")>>
    /\ page.socks[2].id = "g2" /\ page.socks[2].st = "open"
    /\ page.socks[2].sent = <<ClientFrame("subscribe", "g2")>>

====
